---- MODULE Spec2Model ----
(***************************************************************************)
(* Model of the Seo-Analyzer correction engine.                            *)
(*                                                                         *)
(* Two React components own an editing session each:                       *)
(*   GrammarChecker (components/CorrrectionDisplay.tsx) applies a fix      *)
(*     locally and classifies findings with separateMatches;               *)
(*   InputContent (components/InputContent.tsx) sends the fix to the       *)
(*     insert-keyword endpoint and installs the returned content.          *)
(* One of them is mounted; `component` says which.  Strings are TLA+       *)
(* strings, offsets are zero based as in the source.                       *)
(*                                                                         *)
(* Spec is the editing session.  HandlerSpec is the /api/analyze route     *)
(* handler serving one request of any shape.  FingerprintSpec is a session *)
(* that shows any two findings of KeyUniverse and applies fixes to them.   *)
(***************************************************************************)
EXTENDS Integers, Sequences, FiniteSets

VARIABLES
    component,     \* which component is mounted
    content,       \* useState('') content buffer (the form field mirrors it)
    results,       \* useState(null) last analysis response
    loading,       \* GrammarChecker: submit pending; InputContent: fix pending
    isSubmitting,  \* InputContent: submit pending
    fixedMatches,  \* Record<string, boolean>: the set of keys mapped to true
    analyzeCalls,  \* requests to /api/analyze whose promise is not settled
    fixCalls,      \* requests to /api/insert-keyword whose promise is not settled
    toast,         \* InputContent: the last toast shown
    ops,           \* user operations so far (bounds the model)
    untouched,     \* history: buffer and tracker as the operations other than
                   \* the pending Submit leave them (NoShadow when none pending)
    request,       \* /api/analyze handler: the request it serves
    hpc,           \* /api/analyze handler: where its POST function stands
    oracleCalls,   \* /api/analyze handler: the calls it made to LanguageTool
    response       \* /api/analyze handler: the NextResponse it returned

sessionVars == <<component, content, results, loading, isSubmitting, fixedMatches,
                 analyzeCalls, fixCalls, toast, ops, untouched>>

handlerVars == <<request, hpc, oracleCalls, response>>

vars == <<sessionVars, handlerVars>>

----------------------------------------------------------------------------
(* Bounds *)

MaxMatches == 2          \* findings in one oracle answer
MaxOps == 5              \* user operations (edit, submit, fix) in one session

(* Program constants *)

MinContent == 5
MaxContent == 800
PrefixLen == 20

----------------------------------------------------------------------------
(* The data the user and the oracle can supply *)

Texts == {"She dont like apples.", "The quick brown fox", "0123456789",
          "constructor"}

F1 == [offset |-> 4, length |-> 4, message |-> "Grammatical error",
       replacements |-> <<"doesn't">>, context |-> "She dont like apples."]
F2 == [offset |-> 4, length |-> 5, message |-> "Consider a different adjective",
       replacements |-> <<"slow", "fast">>, context |-> "The quick brown fox"]
F3 == [offset |-> 8, length |-> 5, message |-> "Possible typo",
       replacements |-> <<"X">>, context |-> "The quick brown fox"]
F4 == [offset |-> 0, length |-> 3, message |-> "Style",
       replacements |-> <<>>, context |-> "She dont like apples."]

F5 == [offset |-> 0, length |-> 11,
       message |-> "This sentence does not start with an uppercase letter.",
       replacements |-> <<"Constructor">>, context |-> "constructor"]

F6 == [offset |-> 4, length |-> 5, message |-> "Consider a different word",
       replacements |-> <<"swift">>, context |-> "The quick brown fox"]

Findings == {F1, F2, F3, F4, F5, F6}

SeqsUpTo(S, n) == UNION {[1..k -> S] : k \in 0..n}

\* The oracle flags spans of the sentence it was given: context.text is that
\* sentence and the span lies inside it (the Finding invariant)
OracleAnswers(text) ==
    SeqsUpTo({f \in Findings : f.context = text /\ f.offset + f.length <= Len(text)},
             MaxMatches)

----------------------------------------------------------------------------
(* JavaScript primitives *)

Min(a, b) == IF a < b THEN a ELSE b
Max(a, b) == IF a > b THEN a ELSE b

\* String.prototype.substring(start, end): both clamped to [0, length],
\* swapped when start > end
substring(s, start, end) ==
    LET fs == Min(Max(start, 0), Len(s))
        fe == Min(Max(end, 0), Len(s))
    IN  SubSeq(s, Min(fs, fe) + 1, Max(fs, fe))

\* String.prototype.substring(start): to the end of the string
substringFrom(s, start) == substring(s, start, Len(s))

Digit(d) ==
    CASE d = 0 -> "0" [] d = 1 -> "1" [] d = 2 -> "2" [] d = 3 -> "3"
      [] d = 4 -> "4" [] d = 5 -> "5" [] d = 6 -> "6" [] d = 7 -> "7"
      [] d = 8 -> "8" [] d = 9 -> "9"

\* `${n}` for a non-negative integer
RECURSIVE numberToString(_)
numberToString(n) == IF n < 10 THEN Digit(n) ELSE numberToString(n \div 10) \o Digit(n % 10)

----------------------------------------------------------------------------
(* Pure functions of the components *)

\* mutant: the key leaves the length out
matchKeyWithoutLength(match) ==
    numberToString(match.offset) \o "-" \o substring(match.message, 0, PrefixLen)

matchKey(match) ==
    numberToString(match.offset) \o "-" \o numberToString(match.length) \o "-"
        \o substring(match.message, 0, PrefixLen)

\* setFixedMatches(prev => ({ ...prev, [matchKey]: true }))
markFixed(prev, key) == prev \cup {key}

\* mutant: the tail is taken from the start of the span (length forgotten)
handleFixKeepsSpan(c, match, replacement) ==
    substring(c, 0, match.offset) \o replacement \o substringFrom(c, match.offset)

\* GrammarChecker.handleFix: the new buffer
handleFixNewContent(c, match, replacement) ==
    substring(c, 0, match.offset) \o replacement
        \o substringFrom(c, match.offset + match.length)

\* POST /api/insert-keyword: the new buffer
insertKeywordPOST(match, replacement, c) ==
    LET start == match.offset
        end == match.offset + match.length
    IN  [status |-> 200, success |-> TRUE,
         newContent |-> substring(c, 0, start) \o replacement \o substringFrom(c, end)]

\* separateMatches: forEach over matches, pushing to one of two lists
RECURSIVE separateFrom(_, _, _, _)
separateFrom(matches, fixed, i, acc) ==
    IF i > Len(matches) THEN acc
    ELSE LET match == matches[i]
             key == matchKey(match)
         IN  IF Len(match.replacements) = 1 /\ key \notin fixed
             THEN separateFrom(matches, fixed, i + 1,
                      [acc EXCEPT !.corrections = Append(@, match)])
             ELSE separateFrom(matches, fixed, i + 1,
                      [acc EXCEPT !.suggestions = Append(@, match)])

\* mutant: the classifier does not consult fixedMatches
separateIgnoringFixed(matches, fixed) ==
    separateFrom(matches, {}, 1, [corrections |-> <<>>, suggestions |-> <<>>])

separateMatches(matches, fixed) ==
    separateFrom(matches, fixed, 1, [corrections |-> <<>>, suggestions |-> <<>>])

\* results?.corrections?.matches ? separateMatches(...) : both empty
Classified(res, fixed) ==
    IF res.kind = "ok" THEN separateMatches(res.matches, fixed)
    ELSE [corrections |-> <<>>, suggestions |-> <<>>]

\* The property names every object literal inherits from Object.prototype;
\* reading one of them from {} gives a function or an object, never undefined
ObjectPrototypeKeys ==
    {"constructor", "toString", "toLocaleString", "valueOf", "hasOwnProperty",
     "isPrototypeOf", "propertyIsEnumerable", "__proto__", "__defineGetter__",
     "__defineSetter__", "__lookupGetter__", "__lookupSetter__"}

\* const sentenceMap = {}
EmptySentenceMap == [threw |-> FALSE, map |-> [k \in {} |-> <<>>]]

\* groupMatchesBySentence: forEach over matches.  sentenceMap[sentence] is an
\* own array, or an inherited member (truthy and without push: the call throws
\* a TypeError), or undefined (an array is created first)
RECURSIVE groupFrom(_, _, _)
groupFrom(matches, i, acc) ==
    IF i > Len(matches) \/ acc.threw THEN acc
    ELSE LET match == matches[i]
             sentence == match.context
         IN  IF sentence \in DOMAIN acc.map
             THEN groupFrom(matches, i + 1,
                      [acc EXCEPT !.map[sentence] = Append(@, match)])
             ELSE IF sentence \in ObjectPrototypeKeys
             THEN [acc EXCEPT !.threw = TRUE]
             ELSE groupFrom(matches, i + 1,
                      [acc EXCEPT !.map = [k \in DOMAIN acc.map \cup {sentence} |->
                                             IF k = sentence THEN <<match>>
                                             ELSE acc.map[k]]])

groupMatchesBySentence(matches) == groupFrom(matches, 1, EmptySentenceMap)

\* the render of GrammarChecker groups corrections and suggestions
RenderThrows(res, fixed) ==
    \/ groupMatchesBySentence(Classified(res, fixed).corrections).threw
    \/ groupMatchesBySentence(Classified(res, fixed).suggestions).threw

\* POST /api/analyze: the responses the handler can give for a request body
analyzePOST(text) ==
    IF Len(text) < MinContent \/ Len(text) > MaxContent
    THEN {[status |-> 400, success |-> FALSE, matches |-> <<>>]}
    ELSE {[status |-> 200, success |-> TRUE, matches |-> m] : m \in OracleAnswers(text)}
         \cup {[status |-> 500, success |-> FALSE, matches |-> <<>>]}

\* the request never reached the handler
NetworkError == [status |-> 0, success |-> FALSE, matches |-> <<>>]

----------------------------------------------------------------------------
(* State helpers *)

NullResults == [kind |-> "null", matches |-> <<>>]
FailResults == [kind |-> "fail", matches |-> <<>>]
OkResults(m) == [kind |-> "ok", matches |-> m]

NoShadow == [content |-> "", fixedMatches |-> {}, pending |-> FALSE]

\* JSON values of a request body: a string, or a value of another type
Str(s) == [type |-> "string", value |-> s]
Undefined == [type |-> "undefined", value |-> ""]
Null == [type |-> "null", value |-> ""]
Num == [type |-> "number", value |-> ""]

NoRequest == [json |-> FALSE, content |-> Undefined, language |-> Undefined]
NoResponse == [status |-> 0, success |-> FALSE]

\* the component is on screen: its last render did not throw
Mounted == ~(component = "GrammarChecker" /\ RenderThrows(results, fixedMatches))

RemoveAt(s, i) == SubSeq(s, 1, i - 1) \o SubSeq(s, i + 1, Len(s))

\* history bookkeeping: what an edit or a fix does to the untouched copy
ShadowEdit(newContent, newKeys) ==
    IF untouched.pending
    THEN [untouched EXCEPT !.content = newContent,
                           !.fixedMatches = @ \cup newKeys]
    ELSE untouched

----------------------------------------------------------------------------
(* Initial state: either component freshly mounted *)

Init ==
    /\ component \in {"GrammarChecker", "InputContent"}
    /\ content = ""
    /\ results = NullResults
    /\ loading = FALSE
    /\ isSubmitting = FALSE
    /\ fixedMatches = {}
    /\ analyzeCalls = <<>>
    /\ fixCalls = <<>>
    /\ toast = "none"
    /\ ops = 0
    /\ untouched = NoShadow
    /\ request = NoRequest
    /\ hpc = "idle"
    /\ oracleCalls = <<>>
    /\ response = NoResponse

----------------------------------------------------------------------------
(* The user types: textarea onChange -> setContent (both components) *)

SetContent(t) ==
    /\ Mounted
    /\ t # content
    /\ content' = t
    /\ ops < MaxOps
    /\ ops' = ops + 1
    /\ untouched' = ShadowEdit(t, {})
    /\ UNCHANGED handlerVars
    /\ UNCHANGED <<component, results, loading, isSubmitting, fixedMatches,
                   analyzeCalls, fixCalls, toast>>

----------------------------------------------------------------------------
(* GrammarChecker *)

\* mutant: the Check Grammar button is not disabled while loading
GHandleSubmitUnguarded ==
    /\ component = "GrammarChecker"
    /\ Mounted
    /\ ops < MaxOps
    /\ ops' = ops + 1
    /\ loading' = TRUE
    /\ fixedMatches' = {}
    /\ analyzeCalls' = Append(analyzeCalls, [content |-> content])
    /\ untouched' = [content |-> content, fixedMatches |-> fixedMatches,
                     pending |-> TRUE]
    /\ UNCHANGED handlerVars
    /\ UNCHANGED <<component, content, results, isSubmitting, fixCalls, toast>>

\* handleSubmit up to the await; the button is disabled while loading
GHandleSubmit ==
    /\ component = "GrammarChecker"
    /\ Mounted
    /\ ~loading
    /\ ops < MaxOps
    /\ ops' = ops + 1
    /\ loading' = TRUE
    /\ fixedMatches' = {}
    /\ analyzeCalls' = Append(analyzeCalls, [content |-> content])
    /\ untouched' = [content |-> content, fixedMatches |-> fixedMatches,
                     pending |-> TRUE]
    /\ UNCHANGED handlerVars
    /\ UNCHANGED <<component, content, results, isSubmitting, fixCalls, toast>>

\* handleSubmit after the await: a 2xx response is stored as it is
GSubmitResolved(i) ==
    /\ component = "GrammarChecker"
    /\ Mounted
    /\ \E resp \in analyzePOST(analyzeCalls[i].content) :
          /\ resp.status = 200
          /\ results' = OkResults(resp.matches)
    /\ loading' = FALSE
    /\ analyzeCalls' = RemoveAt(analyzeCalls, i)
    /\ untouched' = NoShadow
    /\ UNCHANGED handlerVars
    /\ UNCHANGED <<component, content, isSubmitting, fixedMatches, fixCalls,
                   toast, ops>>

\* handleSubmit after the await: the request rejected (non-2xx or network)
GSubmitRejected(i) ==
    /\ component = "GrammarChecker"
    /\ Mounted
    /\ \E resp \in analyzePOST(analyzeCalls[i].content) \cup {NetworkError} :
          resp.status # 200
    /\ results' = FailResults
    /\ loading' = FALSE
    /\ analyzeCalls' = RemoveAt(analyzeCalls, i)
    /\ untouched' = NoShadow
    /\ UNCHANGED handlerVars
    /\ UNCHANGED <<component, content, isSubmitting, fixedMatches, fixCalls,
                   toast, ops>>

\* the Done button of match i is rendered: results.success and the match is
\* in corrections
GFixButton(i) ==
    /\ component = "GrammarChecker"
    /\ Mounted
    /\ results.kind = "ok"
    /\ i \in DOMAIN results.matches
    /\ \E k \in DOMAIN Classified(results, fixedMatches).corrections :
          Classified(results, fixedMatches).corrections[k] = results.matches[i]

\* mutant: the fixed match is dropped from the finding set
GHandleFixRemoves(i) ==
    /\ GFixButton(i)
    /\ ops < MaxOps
    /\ ops' = ops + 1
    /\ LET match == results.matches[i]
           newContent == handleFixNewContent(content, match, match.replacements[1])
       IN  /\ content' = newContent
           /\ fixedMatches' = fixedMatches \cup {matchKey(match)}
           /\ untouched' = ShadowEdit(newContent, {matchKey(match)})
    /\ results' = [results EXCEPT !.matches = RemoveAt(@, i)]
    /\ UNCHANGED handlerVars
    /\ UNCHANGED <<component, loading, isSubmitting, analyzeCalls, fixCalls, toast>>

\* mutant: the fix is applied but the match is not marked as fixed
GHandleFixForgetsMark(i) ==
    /\ GFixButton(i)
    /\ ops < MaxOps
    /\ ops' = ops + 1
    /\ content' = handleFixNewContent(content, results.matches[i],
                                      results.matches[i].replacements[1])
    /\ untouched' = ShadowEdit(content', {})
    /\ UNCHANGED handlerVars
    /\ UNCHANGED <<component, results, loading, isSubmitting, fixedMatches,
                   analyzeCalls, fixCalls, toast>>

\* handleFix(match, match.replacements[0].value)
GHandleFix(i) ==
    /\ GFixButton(i)
    /\ ops < MaxOps
    /\ ops' = ops + 1
    /\ LET match == results.matches[i]
           newContent == handleFixNewContent(content, match, match.replacements[1])
       IN  /\ content' = newContent
           /\ fixedMatches' = markFixed(fixedMatches, matchKey(match))
           /\ untouched' = ShadowEdit(newContent, {matchKey(match)})
    /\ UNCHANGED handlerVars
    /\ UNCHANGED <<component, results, loading, isSubmitting, analyzeCalls,
                   fixCalls, toast>>

----------------------------------------------------------------------------
(* InputContent *)

\* zodResolver(inputSchema): onsubmit runs only for a valid form
FormValid(text) == Len(text) >= MinContent /\ Len(text) <= MaxContent

\* onsubmit up to the await; the button is disabled while isSubmitting
IOnSubmit ==
    /\ component = "InputContent"
    /\ ~isSubmitting
    /\ FormValid(content)
    /\ ops < MaxOps
    /\ ops' = ops + 1
    /\ isSubmitting' = TRUE
    /\ fixedMatches' = {}
    /\ analyzeCalls' = Append(analyzeCalls, [content |-> content])
    /\ untouched' = [content |-> content, fixedMatches |-> fixedMatches,
                     pending |-> TRUE]
    /\ UNCHANGED handlerVars
    /\ UNCHANGED <<component, content, results, loading, fixCalls, toast>>

\* onsubmit after the await, response.data.success (the analyze handler
\* answers 200 only with success: true, so the else branch is never taken)
ISubmitResolved(i) ==
    /\ component = "InputContent"
    /\ \E resp \in analyzePOST(analyzeCalls[i].content) :
          /\ resp.status = 200
          /\ resp.success
          /\ results' = OkResults(resp.matches)
    /\ toast' = "Analysis complete"
    /\ isSubmitting' = FALSE
    /\ analyzeCalls' = RemoveAt(analyzeCalls, i)
    /\ untouched' = NoShadow
    /\ UNCHANGED handlerVars
    /\ UNCHANGED <<component, content, loading, fixedMatches, fixCalls, ops>>

\* onsubmit after the await: the request rejected (non-2xx or network)
ISubmitRejected(i) ==
    /\ component = "InputContent"
    /\ \E resp \in analyzePOST(analyzeCalls[i].content) \cup {NetworkError} :
          resp.status # 200
    /\ results' = FailResults
    /\ toast' = "Failed to analyze content"
    /\ isSubmitting' = FALSE
    /\ analyzeCalls' = RemoveAt(analyzeCalls, i)
    /\ untouched' = NoShadow
    /\ UNCHANGED handlerVars
    /\ UNCHANGED <<component, content, loading, fixedMatches, fixCalls, ops>>

\* mutant: the replacement buttons are not disabled while a fix is pending
IFixButtonIgnoresLoading(i, r) ==
    /\ component = "InputContent"
    /\ results.kind = "ok"
    /\ i \in DOMAIN results.matches
    /\ r \in DOMAIN results.matches[i].replacements
    /\ matchKey(results.matches[i]) \notin fixedMatches

\* the button of replacement r of match i is rendered and enabled
IFixButton(i, r) ==
    /\ component = "InputContent"
    /\ results.kind = "ok"
    /\ i \in DOMAIN results.matches
    /\ r \in DOMAIN results.matches[i].replacements
    /\ ~(matchKey(results.matches[i]) \in fixedMatches \/ loading)

\* handleFix up to the await: the request carries the buffer of this render
IHandleFix(i, r) ==
    /\ IFixButton(i, r)
    /\ ops < MaxOps
    /\ ops' = ops + 1
    /\ loading' = TRUE
    /\ fixCalls' = Append(fixCalls, [match |-> results.matches[i],
                                     replacement |-> results.matches[i].replacements[r],
                                     content |-> content])
    /\ UNCHANGED handlerVars
    /\ UNCHANGED <<component, content, results, isSubmitting, fixedMatches,
                   analyzeCalls, toast, untouched>>

\* handleFix after the await: the endpoint answered 200
IFixResolved(j) ==
    /\ component = "InputContent"
    /\ LET call == fixCalls[j]
           resp == insertKeywordPOST(call.match, call.replacement, call.content)
       IN  /\ resp.status = 200
           /\ toast' = "Inserted!"
           /\ content' = resp.newContent
           /\ fixedMatches' = markFixed(fixedMatches, matchKey(call.match))
           /\ untouched' = ShadowEdit(resp.newContent, {matchKey(call.match)})
    /\ loading' = FALSE
    /\ fixCalls' = RemoveAt(fixCalls, j)
    /\ UNCHANGED handlerVars
    /\ UNCHANGED <<component, results, isSubmitting, analyzeCalls, ops>>

\* mutant: the match is marked as fixed although the request failed
IFixRejectedMarks(j) ==
    /\ component = "InputContent"
    /\ toast' = "Failed to insert the suggestion"
    /\ loading' = FALSE
    /\ fixedMatches' = fixedMatches \cup {matchKey(fixCalls[j].match)}
    /\ fixCalls' = RemoveAt(fixCalls, j)
    /\ UNCHANGED handlerVars
    /\ UNCHANGED <<component, content, results, isSubmitting, analyzeCalls, ops,
                   untouched>>

\* handleFix after the await: the request rejected (network)
IFixRejected(j) ==
    /\ component = "InputContent"
    /\ toast' = "Failed to insert the suggestion"
    /\ loading' = FALSE
    /\ fixCalls' = RemoveAt(fixCalls, j)
    /\ UNCHANGED handlerVars
    /\ UNCHANGED <<component, content, results, isSubmitting, fixedMatches,
                   analyzeCalls, ops, untouched>>

----------------------------------------------------------------------------

Next ==
    \/ \E t \in Texts : SetContent(t)
    \/ GHandleSubmit
    \/ \E i \in DOMAIN analyzeCalls : GSubmitResolved(i)
    \/ \E i \in DOMAIN analyzeCalls : GSubmitRejected(i)
    \/ \E i \in 1..MaxMatches : GHandleFix(i)
    \/ IOnSubmit
    \/ \E i \in DOMAIN analyzeCalls : ISubmitResolved(i)
    \/ \E i \in DOMAIN analyzeCalls : ISubmitRejected(i)
    \/ \E i \in 1..MaxMatches : \E r \in 1..2 : IHandleFix(i, r)
    \/ \E j \in DOMAIN fixCalls : IFixResolved(j)
    \/ \E j \in DOMAIN fixCalls : IFixRejected(j)

Spec == Init /\ [][Next]_vars

----------------------------------------------------------------------------
(* The /api/analyze route handler, POST, serving one request.  The body is
   whatever a client sends: not JSON at all, or an object whose content and
   language are strings of any length or values of another type. *)

repeat(s, n) ==
    LET RECURSIVE rep(_)
        rep(k) == IF k = 0 THEN ""
                  ELSE LET h == rep(k \div 2)
                       IN  IF k % 2 = 0 THEN h \o h ELSE h \o h \o s
    IN  rep(n)

RequestContents ==
    {Undefined, Num,
     Str(""), Str(repeat("a", MinContent - 1)), Str(repeat("a", MinContent)),
     Str("     "), Str("She dont like apples."),
     Str(repeat("a", MaxContent)), Str(repeat("a", MaxContent + 1))}

RequestLanguages ==
    {Undefined, Null, Num,
     Str("en"), Str("de"), Str("fr"), Str("es"), Str("it"),
     Str("pt"), Str("EN"), Str("")}

Requests ==
    {NoRequest} \cup
    {[json |-> TRUE, content |-> c, language |-> l] :
        c \in RequestContents, l \in RequestLanguages}

\* mutant: the schema without its upper length bound
safeParseNoMax(body) ==
    /\ body.content.type = "string"
    /\ Len(body.content.value) >= MinContent
    /\ body.language.type \in {"string", "undefined"}

\* inputSchema.safeParse(body).success
safeParse(body) ==
    /\ body.content.type = "string"
    /\ Len(body.content.value) >= MinContent
    /\ Len(body.content.value) <= MaxContent
    /\ body.language.type \in {"string", "undefined"}

supportedLanguages == {"en", "de", "fr", "es", "it"}

\* const { language = 'en' } = parsed.data; lang = includes(language) ? language : 'en'
lang(language) ==
    LET l == IF language.type = "undefined" THEN "en" ELSE language.value
    IN  IF l \in supportedLanguages THEN l ELSE "en"

\* the handler up to its await of the LanguageTool call, or to its return
POSTReceive ==
    /\ hpc = "received"
    /\ IF ~request.json
       THEN \* req.json() throws, the catch block answers
            /\ response' = [status |-> 500, success |-> FALSE]
            /\ hpc' = "done"
            /\ UNCHANGED oracleCalls
       ELSE IF ~safeParse(request)
       THEN /\ response' = [status |-> 400, success |-> FALSE]
            /\ hpc' = "done"
            /\ UNCHANGED oracleCalls
       ELSE IF request.content.value = ""
       THEN /\ response' = [status |-> 400, success |-> FALSE]
            /\ hpc' = "done"
            /\ UNCHANGED oracleCalls
       ELSE /\ oracleCalls' = Append(oracleCalls,
                                 [text |-> request.content.value,
                                  language |-> lang(request.language)])
            /\ hpc' = "calling"
            /\ UNCHANGED response
    /\ UNCHANGED <<request, sessionVars>>

\* LanguageTool answered: the handler returns its data
POSTOracleReplied ==
    /\ hpc = "calling"
    /\ response' = [status |-> 200, success |-> TRUE]
    /\ hpc' = "done"
    /\ UNCHANGED <<request, oracleCalls, sessionVars>>

\* the statuses of a failed LanguageTool call; 0 stands for no response at all
OracleErrors == {0, 400, 429, 500, 503}

\* the call threw: statusCode = axiosError.response?.status || 500
POSTOracleFailed(st) ==
    /\ hpc = "calling"
    /\ response' = [status |-> IF st = 0 THEN 500 ELSE st, success |-> FALSE]
    /\ hpc' = "done"
    /\ UNCHANGED <<request, oracleCalls, sessionVars>>

HandlerInit ==
    /\ component \in {"GrammarChecker", "InputContent"}
    /\ content = ""
    /\ results = NullResults
    /\ loading = FALSE
    /\ isSubmitting = FALSE
    /\ fixedMatches = {}
    /\ analyzeCalls = <<>>
    /\ fixCalls = <<>>
    /\ toast = "none"
    /\ ops = 0
    /\ untouched = NoShadow
    /\ request \in Requests
    /\ hpc = "received"
    /\ oracleCalls = <<>>
    /\ response = NoResponse

HandlerNext ==
    \/ POSTReceive
    \/ POSTOracleReplied
    \/ \E st \in OracleErrors : POSTOracleFailed(st)

HandlerSpec == HandlerInit /\ [][HandlerNext]_vars

----------------------------------------------------------------------------
(* Vocabulary of the claims *)

\* the Applicator contract: content[0:offset] + replacement + content[offset+length:]
Contract(c, match, replacement) ==
    SubSeq(c, 1, match.offset) \o replacement
        \o SubSeq(c, match.offset + match.length + 1, Len(c))

InRange(match, c) ==
    match.offset >= 0 /\ match.length >= 0 /\ match.offset + match.length <= Len(c)

\* Session Controller states
Submitting == IF component = "GrammarChecker" THEN loading ELSE isSubmitting
Ready == results.kind = "ok" /\ ~Submitting

\* match i of the displayed finding set has an enabled fix button
Actionable(i) == GFixButton(i) \/ \E r \in 1..2 : IFixButton(i, r)

InSeq(x, s) == \E k \in DOMAIN s : s[k] = x

----------------------------------------------------------------------------
(* C1: for every buffer the session reaches and every finding whose span lies
   inside it, the local handleFix and the insert-keyword endpoint both give
   content[0:offset] + replacement + content[offset+length:]; "The quick
   brown fox", offset 4, length 5, "slow" gives "The slow brown fox". *)
C1_ApplicatorContract ==
    /\ \A f \in Findings : \A k \in DOMAIN f.replacements :
          InRange(f, content) =>
             /\ handleFixNewContent(content, f, f.replacements[k])
                   = Contract(content, f, f.replacements[k])
             /\ insertKeywordPOST(f, f.replacements[k], content).newContent
                   = Contract(content, f, f.replacements[k])
    /\ handleFixNewContent("The quick brown fox", F2, "slow") = "The slow brown fox"
    /\ insertKeywordPOST(F2, "slow", "The quick brown fox").newContent
          = "The slow brown fox"

\* the fix of "quick" by "slow" has been applied to "The quick brown fox"
C1_Witness ==
    /\ content = "The slow brown fox"
    /\ matchKey(F2) \in fixedMatches

(* C2: a fix applied with offset + length > len(content) fails: the buffer is
   unchanged and the finding stays unresolved. *)
C2_OutOfRangeRejected ==
    [][ /\ \A i \in 1..MaxMatches :
              (GHandleFix(i) /\ ~InRange(results.matches[i], content)) =>
                  /\ content' = content
                  /\ matchKey(results.matches[i]) \notin fixedMatches'
        /\ \A j \in DOMAIN fixCalls :
              (IFixResolved(j) /\ ~InRange(fixCalls[j].match, fixCalls[j].content)) =>
                  /\ content' = content
                  /\ matchKey(fixCalls[j].match) \notin fixedMatches' ]_vars

(* C3: a finding whose fix has been applied is not actionable again for as
   long as the displayed finding set stays the same. *)
C3_NeverActionableAgain ==
    [][ \A i \in DOMAIN results.matches :
           ( /\ results.kind = "ok"
             /\ matchKey(results.matches[i]) \in fixedMatches
             /\ results' = results )
           => ~Actionable(i)' ]_vars

(* C4: when a Submit completes successfully and installs its findings, the
   Resolution Tracker is empty. *)
C4_TrackerEmptyOnNewFindings ==
    [][ (\E i \in DOMAIN analyzeCalls : GSubmitResolved(i) \/ ISubmitResolved(i))
           => fixedMatches' = {} ]_vars

(* C5: when a Submit ends in an OracleError, buffer and tracker are what they
   would be had the Submit not been issued. *)
C5_OracleErrorLeavesUntouched ==
    [][ (\E i \in DOMAIN analyzeCalls : GSubmitRejected(i) \/ ISubmitRejected(i))
           => /\ content' = untouched.content
              /\ fixedMatches' = untouched.fixedMatches ]_vars

(* C6: a failed fix-application call changes neither buffer nor tracker, in
   the part of handleFix before the await and in the part after it; the
   finding is unresolved afterwards and the fix-in-progress flag is cleared. *)
C6_FailedFixLeavesState ==
    [][ /\ \A i \in 1..MaxMatches : \A r \in 1..2 :
              IHandleFix(i, r) => content' = content /\ fixedMatches' = fixedMatches
        /\ \A j \in DOMAIN fixCalls :
              IFixRejected(j) =>
                  /\ content' = content
                  /\ fixedMatches' = fixedMatches
                  /\ matchKey(fixCalls[j].match) \notin fixedMatches'
                  /\ ~loading' ]_vars

\* a fix request has failed and the session is interactive again
C6_Witness ==
    /\ toast = "Failed to insert the suggestion"
    /\ ~loading
    /\ results.kind = "ok"

(* C7: a successful fix from Ready installs the Applicator result, marks the
   fingerprint of the finding, and changes neither the finding set nor the
   controller state. *)
C7_FixFrame ==
    [][ /\ \A i \in 1..MaxMatches :
              (Ready /\ GHandleFix(i)) =>
                  LET match == results.matches[i] IN
                  /\ results' = results
                  /\ Ready'
                  /\ analyzeCalls' = analyzeCalls
                  /\ fixedMatches' = fixedMatches \cup {matchKey(match)}
                  /\ InRange(match, content) =>
                        content' = Contract(content, match, match.replacements[1])
        /\ \A j \in DOMAIN fixCalls :
              (Ready /\ IFixResolved(j)) =>
                  LET call == fixCalls[j] IN
                  /\ results' = results
                  /\ Ready'
                  /\ analyzeCalls' = analyzeCalls
                  /\ fixedMatches' = fixedMatches \cup {matchKey(call.match)}
                  /\ InRange(call.match, call.content) =>
                        content' = Contract(call.content, call.match, call.replacement)
      ]_vars

\* one of two findings is fixed, the other is still there with its offsets
C7_Witness ==
    /\ Ready
    /\ Len(results.matches) = 2
    /\ matchKey(results.matches[1]) \in fixedMatches
    /\ matchKey(results.matches[2]) \notin fixedMatches
    /\ content \notin Texts

(* C8: for the displayed findings and every tracker state (every set of
   their fingerprints, and the session's own tracker), separateMatches
   puts a finding in corrections iff it has exactly one candidate and its
   fingerprint is not resolved, in suggestions otherwise; each list is in
   input order and together they hold every finding once. *)
C8_ClassifierPartition ==
    \A fixed \in SUBSET {matchKey(results.matches[k]) : k \in DOMAIN results.matches}
                     \cup {fixedMatches} :
        LET IsCorrection(f) == Len(f.replacements) = 1 /\ matchKey(f) \notin fixed
            IsSuggestion(f) == ~IsCorrection(f)
            out == separateMatches(results.matches, fixed)
        IN  /\ out.corrections = SelectSeq(results.matches, IsCorrection)
            /\ out.suggestions = SelectSeq(results.matches, IsSuggestion)
            /\ Len(out.corrections) + Len(out.suggestions) = Len(results.matches)

\* a resolved single-candidate finding is shown among the suggestions, after
\* a finding that never had a candidate
C8_Witness ==
    /\ component = "GrammarChecker"
    /\ results.kind = "ok"
    /\ Classified(results, fixedMatches).corrections = <<>>
    /\ Classified(results, fixedMatches).suggestions = <<F4, F1>>

(* C9: a single-candidate finding that was reclassified to suggestions by its
   fix stays in suggestions until a new analysis replaces the finding set. *)
C9_StaysInSuggestions ==
    [][ \A i \in DOMAIN results.matches :
           ( /\ component = "GrammarChecker"
             /\ results.kind = "ok"
             /\ Len(results.matches[i].replacements) = 1
             /\ InSeq(results.matches[i], Classified(results, fixedMatches).suggestions)
             /\ results' = results )
           => InSeq(results.matches[i], Classified(results', fixedMatches').suggestions)
      ]_vars

(* C10 as stated: after the fix of the only finding (one candidate),
   reclassification gives zero corrections and zero suggestions. *)
C10_NothingLeftAfterFix ==
    [][ ( /\ GHandleFix(1)
          /\ Len(results.matches) = 1 )
        => /\ Classified(results', fixedMatches').corrections = <<>>
           /\ Classified(results', fixedMatches').suggestions = <<>> ]_vars

(* C10 amended: the only finding (one candidate) is one correction; after its
   fix, reclassification gives zero corrections and one suggestion, the
   resolved finding; "She dont like apples." becomes "She doesn't like
   apples.". *)
C10_EndToEnd ==
    [][ ( /\ GHandleFix(1)
          /\ Len(results.matches) = 1 )
        => /\ Classified(results, fixedMatches).corrections = results.matches
           /\ Classified(results, fixedMatches).suggestions = <<>>
           /\ Classified(results', fixedMatches').corrections = <<>>
           /\ Classified(results', fixedMatches').suggestions = results.matches
           /\ (content = "She dont like apples." /\ results.matches = <<F1>>)
                 => content' = "She doesn't like apples." ]_vars

\* the end-to-end example has run
C10_Witness ==
    /\ component = "GrammarChecker"
    /\ results = OkResults(<<F1>>)
    /\ content = "She doesn't like apples."
    /\ fixedMatches = {matchKey(F1)}

(* C12: at most one analysis submission is in flight, and one is in flight
   exactly while the controller is Submitting; so the response that settles
   is that of the latest Submit and no older one is left to arrive after. *)
C12_OneSubmissionInFlight ==
    /\ Len(analyzeCalls) <= 1
    /\ Submitting <=> Len(analyzeCalls) = 1

\* a second analysis is pending while the findings of the first are shown
C12_Witness ==
    /\ Len(analyzeCalls) = 1
    /\ results.kind = "ok"
    /\ results.matches # <<>>
    /\ analyzeCalls[1].content # content

(* C16: in InputContent at most one fix request is in flight; a successful fix
   installs the Applicator result for the buffer its request was issued with,
   and no other fix response is left to overwrite it. *)
C16_OneFixInFlight ==
    [][ /\ Len(fixCalls') <= 1
        /\ (component = "InputContent" /\ loading') <=> Len(fixCalls') = 1
        /\ \A j \in DOMAIN fixCalls :
              IFixResolved(j) =>
                  LET call == fixCalls[j] IN
                  /\ fixCalls' = <<>>
                  /\ InRange(call.match, call.content) =>
                        content' = Contract(call.content, call.match, call.replacement)
                  /\ ~InRange(call.match, call.content) =>
                        content' = SubSeq(call.content, 1, Min(call.match.offset, Len(call.content)))
                                      \o call.replacement ]_vars

\* a fix response is pending for a buffer the user has since replaced
C16_Witness ==
    /\ component = "InputContent"
    /\ Len(fixCalls) = 1
    /\ loading
    /\ fixCalls[1].content # content

(* C13: groupMatchesBySentence returns a map keyed by context.text in which
   every finding is in the group of its own context.text and in no other, the
   groups being in input order. *)
C13_GroupingContract ==
    component = "GrammarChecker" =>
        \A list \in {Classified(results, fixedMatches).corrections,
                     Classified(results, fixedMatches).suggestions} :
            LET grouped == groupMatchesBySentence(list) IN
            /\ ~grouped.threw
            /\ DOMAIN grouped.map = {list[k].context : k \in DOMAIN list}
            /\ \A sentence \in DOMAIN grouped.map :
                  LET SameSentence(f) == f.context = sentence
                  IN  grouped.map[sentence] = SelectSeq(list, SameSentence)

(* C11: every Submit and every ApplyFix ends with its flag cleared and the
   controller interactive: on screen, not Submitting, in Ready or Failed after
   a Submit; in Failed the submit button is enabled. *)
C11_ReturnsToInteractive ==
    [][ /\ (\E i \in DOMAIN analyzeCalls :
               \/ GSubmitResolved(i) \/ GSubmitRejected(i)
               \/ ISubmitResolved(i) \/ ISubmitRejected(i))
           => /\ Mounted'
              /\ ~Submitting'
              /\ results'.kind \in {"ok", "fail"}
        /\ (\E j \in DOMAIN fixCalls : IFixResolved(j) \/ IFixRejected(j))
           => /\ Mounted'
              /\ ~loading'
        /\ (\E i \in 1..MaxMatches : GHandleFix(i)) => Mounted'
        /\ (results'.kind = "fail" /\ analyzeCalls' = <<>>) => ~Submitting' ]_vars

\* the part of C11 that does not depend on the render: the flags are cleared
C11_FlagsCleared ==
    [][ /\ (\E i \in DOMAIN analyzeCalls :
               \/ GSubmitResolved(i) \/ GSubmitRejected(i)
               \/ ISubmitResolved(i) \/ ISubmitRejected(i))
           => /\ ~Submitting'
              /\ results'.kind \in {"ok", "fail"}
        /\ (\E j \in DOMAIN fixCalls : IFixResolved(j) \/ IFixRejected(j))
           => ~loading' ]_vars

(* C15: from an empty tracker, after the fix of a displayed finding g, a
   displayed finding f counts as resolved iff f and g agree on offset, length
   and the first 20 characters of message, whatever their replacements,
   context and later message text; marking twice changes nothing.  Checked in
   sessions that are Ready with any two findings of KeyUniverse on display. *)
KeyMessages ==
    {"Consider a different adjective", "Consider a different",
     "Consider a differenT adjective", "Consider a differen", "5-Consider"}

KeyUniverse ==
    {F2, F3, F6} \cup
    {[offset |-> o, length |-> l, message |-> m, replacements |-> r, context |-> c] :
        o \in {4, 14}, l \in {5, 15}, m \in KeyMessages,
        r \in {<<"slow">>, <<"quick", "fast">>}, c \in {"Another sentence."}}

KeyText == "The quick brown fox jumps over the lazy dog"

FingerprintInit ==
    /\ component \in {"GrammarChecker", "InputContent"}
    /\ content = KeyText
    /\ \E g, f \in KeyUniverse : results = OkResults(<<g, f>>)
    /\ loading = FALSE
    /\ isSubmitting = FALSE
    /\ fixedMatches = {}
    /\ analyzeCalls = <<>>
    /\ fixCalls = <<>>
    /\ toast = "none"
    /\ ops = 0
    /\ untouched = NoShadow
    /\ request = NoRequest
    /\ hpc = "idle"
    /\ oracleCalls = <<>>
    /\ response = NoResponse

FingerprintNext ==
    \/ \E i \in 1..MaxMatches : GHandleFix(i)
    \/ \E i \in 1..MaxMatches : \E r \in 1..2 : IHandleFix(i, r)
    \/ \E j \in DOMAIN fixCalls : IFixResolved(j)
    \/ \E j \in DOMAIN fixCalls : IFixRejected(j)

FingerprintSpec == FingerprintInit /\ [][FingerprintNext]_vars

SameIssue(f, g) ==
    /\ f.offset = g.offset
    /\ f.length = g.length
    /\ SubSeq(f.message, 1, Min(Len(f.message), PrefixLen))
          = SubSeq(g.message, 1, Min(Len(g.message), PrefixLen))

\* the tracker after the fix of g: f is resolved iff it is the same issue
ResolvedLikewise(g) ==
    /\ \A k \in DOMAIN results.matches :
          matchKey(results.matches[k]) \in fixedMatches'
             <=> SameIssue(results.matches[k], g)
    /\ markFixed(fixedMatches', matchKey(g)) = fixedMatches'

C15_FingerprintEquivalence ==
    [][ /\ \A i \in 1..MaxMatches :
              (fixedMatches = {} /\ GHandleFix(i)) => ResolvedLikewise(results.matches[i])
        /\ \A j \in DOMAIN fixCalls :
              (fixedMatches = {} /\ IFixResolved(j)) => ResolvedLikewise(fixCalls[j].match)
      ]_vars

\* the fix of one finding has resolved another one that differs from it in its
\* replacements, its context and its message after the 20th character
C15_Witness ==
    /\ fixedMatches # {}
    /\ Len(results.matches) = 2
    /\ results.matches[1].message # results.matches[2].message
    /\ results.matches[1].replacements # results.matches[2].replacements
    /\ results.matches[1].context # results.matches[2].context
    /\ \A k \in 1..2 : matchKey(results.matches[k]) \in fixedMatches

----------------------------------------------------------------------------
(* C14: every call the analyze handler makes to LanguageTool carries the
   request's content, of a length within [5, 800], and a language of
   {en, de, fr, es, it}: the request's own language when it is one of them,
   en when it is missing or another string; a request whose content is out of
   bounds (or no string) is answered 400 and no call is made for it. *)
C14_OracleCallsValidated ==
    /\ Len(oracleCalls) <= 1
    /\ \A k \in DOMAIN oracleCalls :
          /\ oracleCalls[k].text = request.content.value
          /\ Len(oracleCalls[k].text) >= 5
          /\ Len(oracleCalls[k].text) <= 800
          /\ oracleCalls[k].language \in {"en", "de", "fr", "es", "it"}
          /\ oracleCalls[k].language =
                IF /\ request.language.type = "string"
                   /\ request.language.value \in {"en", "de", "fr", "es", "it"}
                THEN request.language.value
                ELSE "en"
    /\ ( /\ hpc \notin {"idle", "received"}
         /\ request.json
         /\ \/ request.content.type # "string"
            \/ Len(request.content.value) < 5
            \/ Len(request.content.value) > 800 )
       => /\ hpc = "done"
          /\ response.status = 400
          /\ oracleCalls = <<>>
    /\ ( /\ hpc \notin {"idle", "received"}
         /\ request.json
         /\ request.content.type = "string"
         /\ Len(request.content.value) >= 5
         /\ Len(request.content.value) <= 800
         /\ request.language.type \in {"string", "undefined"} )
       => Len(oracleCalls) = 1

\* a request of 800 characters in an unsupported language has been analysed
\* in English
C14_Witness ==
    /\ hpc = "done"
    /\ response.status = 200
    /\ request.language = Str("pt")
    /\ Len(request.content.value) = 800
    /\ Len(oracleCalls) = 1
    /\ oracleCalls[1].language = "en"

\* a request of 801 characters has been rejected
C14_RejectedWitness ==
    /\ hpc = "done"
    /\ response.status = 400
    /\ request.content.type = "string"
    /\ Len(request.content.value) = 801
    /\ oracleCalls = <<>>

====
